---- MODULE Spec2Model ----
(***************************************************************************)
(* State-machine model of the users controller (login / logout, one-time   *)
(* password reset codes) and of the inventories persistence service        *)
(* (soft delete, restore, force delete).                                    *)
(*                                                                         *)
(* Four specifications share the module:                                   *)
(*   Spec      login and logout over the process-wide session token        *)
(*   SpecOtp   sendUserEmailOTP / resetUserEmailPassword, one request at   *)
(*             a time, with a millisecond clock                            *)
(*   SpecRace  two sendUserEmailOTP requests interleaved at their awaits   *)
(*   SpecInv   the inventories service over a document collection          *)
(***************************************************************************)
EXTENDS Integers, Sequences, FiniteSets, TLC

VARIABLES
    users,        \* users collection: _id -> document
    token,        \* blacklist.js: the single stored session token
    blacklist,    \* blacklist.js: the set of blacklisted tokens
    last,         \* the step taken last: the handler, its input, its response
    loggedOut,    \* history: tokens whose logout answered successfully
    now,          \* the wall clock, in milliseconds
    outbox,       \* e-mails handed to sendEmail, in order: <<to, code, time>>
    consumed,     \* history: <<user, code>> consumed by a reset, not re-issued
    inventories,  \* inventories collection: _id -> document
    nextId,       \* the next _id the collection generates
    purged,       \* history: ids removed by forceDelete
    pc,           \* per request: where the handler is suspended
    snap          \* per request: the code the handler generated (its local code)

vars == <<users, token, blacklist, last, loggedOut, now, outbox, consumed,
          inventories, nextId, purged, pc, snap>>

NULL == "null"

\* No stored session token (falsy). A tuple, as the tokens are.
NoToken == <<>>

\* A null verificationCode field. A record, so that it compares with a stored
\* {code, createdAt}; the handlers that read a property of it throw.
NoCode == [code |-> NULL, createdAt |-> NULL]

(***************************************************************************)
(* Bounds of the model.                                                    *)
(***************************************************************************)
MaxTok == 2
MaxTicks == 4
MaxSent == 2
MaxInv == 2

(***************************************************************************)
(* The users collection.                                                   *)
(***************************************************************************)
UserIds == {"u1", "u2"}
EmailOf == [u \in UserIds |-> IF u = "u1" THEN "a@x" ELSE "b@x"]
RoleOf == [u \in UserIds |-> IF u = "u1" THEN "Admin" ELSE "Customer"]
Emails == {"a@x", "b@x", "nobody@x"}
Passwords == {"pw1", "pw2"}
Codes == {"c1", "c2"}

\* bcrypt.hash: a one-way digest of the plaintext, never the plaintext.
Hash(p) == <<"bcrypt", p>>

\* bcrypt.compare(plaintext, hash)
Compare(p, h) == Hash(p) = h

\* service.getEmail(email): the document with that e-mail, or NULL.
getEmail(e) ==
    IF \E u \in UserIds : users[u].email = e
    THEN CHOOSE u \in UserIds : users[u].email = e
    ELSE NULL

Resp(op, arg, res) == [op |-> op, arg |-> arg, res |-> res]

(***************************************************************************)
(* Session token state (middlewares/blacklist.js) and access tokens.       *)
(***************************************************************************)
\* generateAccess({id, role}).access: a signed token bound to id and role;
\* the third component stands for what else the signature covers (iat).
AccessTokens(u) == {<<u, RoleOf[u], n>> : n \in 1..MaxTok}

getToken == token
isTokenBlacklisted == token \in blacklist
setToken(t) == token' = t
blacklistToken == blacklist' = blacklist \cup {token}
isAuthenticated(t) == t = token /\ t \notin blacklist

\* loginUser with the password comparison placed after setToken.
loginUser_StoresBeforeCompare(e, p) ==
    LET data == getEmail(e) IN
    /\ UNCHANGED <<users, blacklist, loggedOut>>
    /\ IF data = NULL
       THEN /\ last' = Resp("login", <<e, p>>, "NotFound")
            /\ UNCHANGED token
       ELSE \E t \in AccessTokens(data) :
              /\ setToken(t)
              /\ last' = Resp("login", <<e, p>>,
                     IF Compare(p, users[data].password) THEN "OK" ELSE "Unauthorized")

loginUser(e, p) ==
    LET data == getEmail(e) IN
    /\ UNCHANGED <<users, blacklist, loggedOut>>
    /\ IF data = NULL
       THEN /\ last' = Resp("login", <<e, p>>, "NotFound")
            /\ UNCHANGED token
       ELSE IF ~Compare(p, users[data].password)
       THEN /\ last' = Resp("login", <<e, p>>, "Unauthorized")
            /\ UNCHANGED token
       ELSE \E t \in AccessTokens(data) :
              /\ setToken(t)
              /\ last' = Resp("login", <<e, p>>, "OK")

\* logoutUser answering success without calling blacklistToken.
logoutUser_NoBlacklist ==
    LET savedToken == getToken IN
    /\ UNCHANGED <<users, token>>
    /\ IF savedToken = NoToken \/ isTokenBlacklisted
       THEN /\ last' = Resp("logout", <<>>, "Unauthorized")
            /\ UNCHANGED <<blacklist, loggedOut>>
       ELSE /\ UNCHANGED blacklist
            /\ loggedOut' = loggedOut \cup {savedToken}
            /\ last' = Resp("logout", <<>>, "OK")

\* logoutUser without the isTokenBlacklisted() test.
logoutUser_NoBlacklistTest ==
    LET savedToken == getToken IN
    /\ UNCHANGED <<users, token>>
    /\ IF savedToken = NoToken
       THEN /\ last' = Resp("logout", <<>>, "Unauthorized")
            /\ UNCHANGED <<blacklist, loggedOut>>
       ELSE /\ blacklistToken
            /\ loggedOut' = loggedOut \cup {savedToken}
            /\ last' = Resp("logout", <<>>, "OK")

logoutUser ==
    LET savedToken == getToken IN
    /\ UNCHANGED <<users, token>>
    /\ IF savedToken = NoToken \/ isTokenBlacklisted
       THEN /\ last' = Resp("logout", <<>>, "Unauthorized")
            /\ UNCHANGED <<blacklist, loggedOut>>
       ELSE /\ blacklistToken
            /\ loggedOut' = loggedOut \cup {savedToken}
            /\ last' = Resp("logout", <<>>, "OK")

otpVars == <<now, outbox, consumed>>
invVars == <<inventories, nextId, purged>>
raceVars == <<pc, snap>>

UserDoc(u, pw, vc) ==
    [email |-> EmailOf[u], password |-> Hash(pw), role |-> RoleOf[u],
     verificationCode |-> vc]

InitIdle ==
    /\ token = NoToken
    /\ blacklist = {}
    /\ loggedOut = {}
    /\ last = Resp("none", <<>>, "none")
    /\ now = 0
    /\ outbox = <<>>
    /\ consumed = {}
    /\ inventories = <<>>
    /\ nextId = 1
    /\ purged = {}
    /\ pc = <<>>
    /\ snap = <<>>

Init ==
    /\ InitIdle
    /\ \E pw \in [UserIds -> Passwords] :
         users = [u \in UserIds |-> UserDoc(u, pw[u], NoCode)]

Login == \E e \in Emails, p \in Passwords : loginUser(e, p)

Next ==
    \/ Login /\ UNCHANGED <<otpVars, invVars, raceVars>>
    \/ logoutUser /\ UNCHANGED <<otpVars, invVars, raceVars>>

Spec == Init /\ [][Next]_vars

(***************************************************************************)
(* Claims about login and logout (checked under Spec).                     *)
(***************************************************************************)
NoUserHas(e) == \A u \in UserIds : users[u].email # e
Matches(e, p) == \E u \in UserIds : users[u].email = e /\ users[u].password = Hash(p)

\* C1: a token in the blacklist is never accepted by isAuthenticated; a token
\* whose logout succeeded is rejected then and after every later login or
\* logout.
C1_BlacklistedNeverAccepted ==
    \A t \in blacklist \cup loggedOut : ~isAuthenticated(t)

\* A token was logged out, a later login succeeded and stored another token.
C1_Witness ==
    /\ last.op = "login" /\ last.res = "OK"
    /\ \E t \in loggedOut : t # token

\* C2: logout answers Unauthorized, changing neither the blacklist nor the
\* stored token, when no token is stored or the stored token is blacklisted;
\* otherwise it succeeds and adds exactly the stored token to the blacklist. A
\* logout that directly follows a logout answers Unauthorized.
C2_Logout ==
    [][last'.op = "logout" =>
         /\ IF token = NoToken \/ token \in blacklist
            THEN /\ last'.res = "Unauthorized"
                 /\ UNCHANGED <<token, blacklist>>
            ELSE /\ last'.res = "OK"
                 /\ blacklist' = blacklist \cup {token}
         /\ (last.op = "logout" => last'.res = "Unauthorized")]_vars

\* A logout was refused because the stored token had already been logged out.
C2_Witness ==
    /\ last.op = "logout" /\ last.res = "Unauthorized"
    /\ token \in loggedOut

\* C3: login answers NotFound when no user has the e-mail and Unauthorized when
\* the password does not match, leaving the stored token and the blacklist as
\* they were; on success it stores a token issued for that user.
C3_Login ==
    [][\A e \in Emails, p \in Passwords :
         (last'.op = "login" /\ last'.arg = <<e, p>>) =>
            IF NoUserHas(e)
            THEN last'.res = "NotFound" /\ UNCHANGED <<token, blacklist>>
            ELSE IF ~Matches(e, p)
            THEN last'.res = "Unauthorized" /\ UNCHANGED <<token, blacklist>>
            ELSE /\ last'.res = "OK"
                 /\ \E u \in UserIds : users[u].email = e /\ token' \in AccessTokens(u)
                 /\ blacklist' = blacklist]_vars

\* A successful login replaced a stored token that had been logged out.
C3_Witness ==
    /\ last.op = "login" /\ last.res = "OK"
    /\ token \notin blacklist
    /\ blacklist # {}

(***************************************************************************)
(* One-time codes: sendUserEmailOTP and resetUserEmailPassword.            *)
(***************************************************************************)
\* 5 * 60 * 1000: the rate-limit window and the validity window, in ms.
Window == 5 * 60 * 1000

\* The clock advances in steps of half a window, so that a code's age can be
\* below, exactly at and above the window.
ClockStep == Window \div 2

sessVars == <<token, blacklist, loggedOut>>

\* The request body of a reset: <<newPassword, confirmPassword>>; "" is absent.
PasswordPairs ==
    {<<"pw1", "pw1">>, <<"pw2", "pw2">>, <<"pw1", "pw2">>, <<"", "pw1">>, <<"pw2", "">>}

\* generateRandomCode()
generateRandomCode == Codes

\* sendEmail(to, code)
sendEmail(to, code) == outbox' = Append(outbox, <<to, code, now>>)

\* service.sendEmailOTP(email, code): stores {code, createdAt} on the document.
sendEmailOTP(u, code) ==
    users' = [users EXCEPT ![u].verificationCode = [code |-> code, createdAt |-> now]]

\* service.getCode(code): the documents a lookup by stored code can answer.
getCode(c) ==
    {u \in UserIds : users[u].verificationCode # NoCode /\ users[u].verificationCode.code = c}

\* service.resetPassword(code, newPassword): rehashes, stores, clears the code.
resetPassword(u, np) ==
    users' = [users EXCEPT ![u].password = Hash(np), ![u].verificationCode = NoCode]

\* sendUserEmailOTP dispatching the e-mail before the rate-limit test.
sendUserEmailOTP_SendsBeforeTest(e) ==
    LET email == getEmail(e) IN
    /\ UNCHANGED sessVars
    /\ IF email = NULL \/ users[email].verificationCode = NoCode
       THEN /\ last' = Resp("requestOtp", <<e>>, "TypeError")
            /\ UNCHANGED <<users, otpVars>>
       ELSE /\ Len(outbox) < MaxSent
            /\ UNCHANGED now
            /\ \E code \in generateRandomCode :
                 /\ sendEmail(e, code)
                 /\ IF now - users[email].verificationCode.createdAt < Window
                    THEN /\ last' = Resp("requestOtp", <<e>>, "RateLimited")
                         /\ UNCHANGED <<users, consumed>>
                    ELSE /\ sendEmailOTP(email, code)
                         /\ consumed' = consumed \ {<<email, code>>}
                         /\ last' = Resp("requestOtp", <<e>>, "OK")

sendUserEmailOTP(e) ==
    LET email == getEmail(e) IN
    /\ UNCHANGED sessVars
    /\ IF email = NULL \/ users[email].verificationCode = NoCode
       THEN \* email.verificationCode.createdAt throws a TypeError
            /\ last' = Resp("requestOtp", <<e>>, "TypeError")
            /\ UNCHANGED <<users, otpVars>>
       ELSE IF now - users[email].verificationCode.createdAt < Window
       THEN /\ last' = Resp("requestOtp", <<e>>, "RateLimited")
            /\ UNCHANGED <<users, otpVars>>
       ELSE /\ Len(outbox) < MaxSent
            /\ \E code \in generateRandomCode :
                 /\ sendEmail(e, code)
                 /\ sendEmailOTP(email, code)
                 /\ consumed' = consumed \ {<<email, code>>}
                 /\ last' = Resp("requestOtp", <<e>>, "OK")
            /\ UNCHANGED now

\* resetUserEmailPassword answering Expired without clearing the stored code.
resetUserEmailPassword_ExpiredKeepsCode(c, np, cp) ==
    /\ UNCHANGED <<sessVars, now, outbox>>
    /\ IF np = "" \/ cp = "" \/ np # cp
       THEN /\ last' = Resp("reset", <<c, np, cp>>, "BadRequest")
            /\ UNCHANGED <<users, consumed>>
       ELSE IF getCode(c) = {}
       THEN /\ last' = Resp("reset", <<c, np, cp>>, "TypeError")
            /\ UNCHANGED <<users, consumed>>
       ELSE \E code \in getCode(c) :
              /\ consumed' = consumed \cup {<<code, c>>}
              /\ IF now - users[code].verificationCode.createdAt > Window
                 THEN /\ UNCHANGED users
                      /\ last' = Resp("reset", <<c, np, cp>>, "Expired")
                 ELSE /\ resetPassword(code, np)
                      /\ last' = Resp("reset", <<c, np, cp>>, "OK")

resetUserEmailPassword(c, np, cp) ==
    /\ UNCHANGED <<sessVars, now, outbox>>
    /\ IF np = "" \/ cp = "" \/ np # cp
       THEN /\ last' = Resp("reset", <<c, np, cp>>, "BadRequest")
            /\ UNCHANGED <<users, consumed>>
       ELSE IF getCode(c) = {}
       THEN \* code is null: code.verificationCode throws a TypeError
            /\ last' = Resp("reset", <<c, np, cp>>, "TypeError")
            /\ UNCHANGED <<users, consumed>>
       ELSE \E code \in getCode(c) :
              /\ consumed' = consumed \cup {<<code, c>>}
              /\ IF now - users[code].verificationCode.createdAt > Window
                 THEN /\ users' = [users EXCEPT ![code].verificationCode = NoCode]
                      /\ last' = Resp("reset", <<c, np, cp>>, "Expired")
                 ELSE /\ resetPassword(code, np)
                      /\ last' = Resp("reset", <<c, np, cp>>, "OK")

\* Time passes between requests.
Tick ==
    /\ now + ClockStep <= MaxTicks * ClockStep
    /\ now' = now + ClockStep
    /\ last' = Resp("tick", <<>>, "none")
    /\ UNCHANGED <<users, sessVars, outbox, consumed>>

StoredCodes == {NoCode} \cup [code : Codes, createdAt : {0}]

InitOtp ==
    /\ InitIdle
    /\ \E vc \in [UserIds -> StoredCodes] :
         users = [u \in UserIds |-> UserDoc(u, "pw1", vc[u])]

RequestOtp == \E e \in Emails : sendUserEmailOTP(e)

ResetPassword ==
    \E c \in Codes, pp \in PasswordPairs : resetUserEmailPassword(c, pp[1], pp[2])

NextOtp ==
    \/ RequestOtp /\ UNCHANGED <<invVars, raceVars>>
    \/ ResetPassword /\ UNCHANGED <<invVars, raceVars>>
    \/ Tick /\ UNCHANGED <<invVars, raceVars>>

SpecOtp == InitOtp /\ [][NextOtp]_vars

(***************************************************************************)
(* Claims about one-time codes (checked under SpecOtp).                    *)
(***************************************************************************)
Holds(u) == users[u].verificationCode # NoCode
Age(u) == now - users[u].verificationCode.createdAt
IsRequest(e) == last'.op = "requestOtp" /\ last'.arg = <<e>>
IsReset(c, np, cp) == last'.op = "reset" /\ last'.arg = <<c, np, cp>>
Passwd == [u \in UserIds |-> users[u].password]

\* C4: a request made while the user's stored code is younger than 5 minutes
\* answers RateLimited, sends no e-mail and leaves the stored {code, createdAt}
\* as it was; a request made once 5 minutes have elapsed succeeds, e-mails a
\* new code and stores it, with the time of the request, over the old one.
C4_RateLimit ==
    [][\A e \in Emails, u \in UserIds :
         (users[u].email = e /\ Holds(u) /\ IsRequest(e)) =>
            IF Age(u) < Window
            THEN /\ last'.res = "RateLimited"
                 /\ UNCHANGED <<outbox, users>>
            ELSE /\ last'.res = "OK"
                 /\ \E code \in Codes :
                      /\ outbox' = Append(outbox, <<e, code, now>>)
                      /\ users'[u].verificationCode = [code |-> code, createdAt |-> now]]_vars

\* One user was sent a code, sent another 5 minutes or more later, and then
\* refused a third.
C4_Witness ==
    /\ Len(outbox) = 2
    /\ outbox[1][1] = outbox[2][1]
    /\ last.op = "requestOtp" /\ last.arg = <<outbox[2][1]>>
    /\ last.res = "RateLimited"

\* C5: a request for an existing user with no code issued in the last 5
\* minutes, a null verificationCode included, succeeds: it stores
\* {code, createdAt} and e-mails the code.
C5_RequestSucceeds ==
    [][\A e \in Emails, u \in UserIds :
         (users[u].email = e /\ IsRequest(e) /\ (~Holds(u) \/ Age(u) >= Window)) =>
            /\ last'.res = "OK"
            /\ \E code \in Codes :
                 /\ outbox' = Append(outbox, <<e, code, now>>)
                 /\ users'[u].verificationCode = [code |-> code, createdAt |-> now]]_vars

\* C6: a reset with matching passwords and a code issued more than 5 minutes
\* ago answers Expired, changes no password and clears the stored code; the
\* same reset repeated, the code now unknown, answers BadRequest and changes
\* nothing.
C6_ExpiredThenBadRequest ==
    [][\A c \in Codes, np \in Passwords :
         IsReset(c, np, np) =>
            /\ (getCode(c) # {} /\ \A u \in getCode(c) : Age(u) > Window) =>
                  /\ last'.res = "Expired"
                  /\ Passwd' = Passwd
                  /\ \E u \in getCode(c) : users'[u].verificationCode = NoCode
            /\ (last.op = "reset" /\ last.res = "Expired" /\ last.arg[1] = c
                  /\ getCode(c) = {}) =>
                  /\ last'.res = "BadRequest"
                  /\ users' = users]_vars

\* C7: a code consumed by a reset (success or expiry) leaves the user's stored
\* code null, and until a request issues that code to the user again the user
\* holds no such code and no reset presenting it changes the user's password.
C7_SingleUse ==
    /\ [](\A uc \in consumed : users[uc[1]].verificationCode.code # uc[2])
    /\ [][\A u \in UserIds, c \in Codes :
            /\ (<<u, c>> \in consumed' \ consumed) => users'[u].verificationCode = NoCode
            /\ (<<u, c>> \in consumed /\ last'.op = "reset" /\ last'.arg[1] = c)
                  => users'[u].password = users[u].password]_vars

\* A user's password was reset to pw2 with a code; the code was presented
\* again to set pw1 and the password is still pw2.
C7_Witness ==
    \E u \in UserIds, c \in Codes :
      /\ <<u, c>> \in consumed
      /\ users[u].password = Hash("pw2")
      /\ last = Resp("reset", <<c, "pw1", "pw1">>, "TypeError")

(***************************************************************************)
(* sendUserEmailOTP as it runs: two requests for the same user, each       *)
(* suspended at its awaits while the other proceeds.                       *)
(*   "start"      not yet called                                           *)
(*   "getEmail"   suspended at  await service.getEmail(...)                *)
(*   "sendEmail"  suspended at  await sendEmail(...)                       *)
(*   "done"       answered                                                 *)
(***************************************************************************)
Requests == {1, 2}
RaceEmail == "a@x"

\* The request is called: it calls service.getEmail and suspends.
CallGetEmail(r) ==
    /\ pc[r] = "start"
    /\ pc' = [pc EXCEPT ![r] = "getEmail"]
    /\ UNCHANGED <<users, now, outbox, last, snap>>

\* getEmail answers with the document as stored then; the handler tests the
\* rate limit against it and either throws or generates a code and calls
\* sendEmail, where it suspends again.
AfterGetEmail(r) ==
    LET email == getEmail(RaceEmail) IN
    /\ pc[r] = "getEmail"
    /\ UNCHANGED <<users, now>>
    /\ IF email = NULL \/ users[email].verificationCode = NoCode
       THEN /\ last' = [last EXCEPT ![r] = "TypeError"]
            /\ pc' = [pc EXCEPT ![r] = "done"]
            /\ UNCHANGED <<outbox, snap>>
       ELSE IF now - users[email].verificationCode.createdAt < Window
       THEN /\ last' = [last EXCEPT ![r] = "RateLimited"]
            /\ pc' = [pc EXCEPT ![r] = "done"]
            /\ UNCHANGED <<outbox, snap>>
       ELSE /\ Len(outbox) < MaxSent
            /\ \E code \in generateRandomCode :
                 /\ sendEmail(RaceEmail, code)
                 /\ snap' = [snap EXCEPT ![r] = code]
            /\ pc' = [pc EXCEPT ![r] = "sendEmail"]
            /\ UNCHANGED last

\* sendEmail has resolved: service.sendEmailOTP stores the code and the
\* handler answers.
AfterSendEmail(r) ==
    /\ pc[r] = "sendEmail"
    /\ sendEmailOTP(getEmail(RaceEmail), snap[r])
    /\ last' = [last EXCEPT ![r] = "OK"]
    /\ pc' = [pc EXCEPT ![r] = "done"]
    /\ UNCHANGED <<now, outbox, snap>>

\* Time passes while requests are in flight.
RaceTick ==
    /\ now + ClockStep <= MaxTicks * ClockStep
    /\ now' = now + ClockStep
    /\ UNCHANGED <<users, outbox, last, pc, snap>>

InitRace ==
    /\ token = NoToken
    /\ blacklist = {}
    /\ loggedOut = {}
    /\ now = 0
    /\ outbox = <<>>
    /\ consumed = {}
    /\ inventories = <<>>
    /\ nextId = 1
    /\ purged = {}
    /\ \E vc \in [UserIds -> StoredCodes] :
         users = [u \in UserIds |-> UserDoc(u, "pw1", vc[u])]
    /\ pc = [r \in Requests |-> "start"]
    /\ snap = [r \in Requests |-> NULL]
    /\ last = [r \in Requests |-> "none"]

NextRace ==
    \/ \E r \in Requests : CallGetEmail(r) /\ UNCHANGED <<sessVars, consumed, invVars>>
    \/ \E r \in Requests : AfterGetEmail(r) /\ UNCHANGED <<sessVars, consumed, invVars>>
    \/ \E r \in Requests : AfterSendEmail(r) /\ UNCHANGED <<sessVars, consumed, invVars>>
    \/ RaceTick /\ UNCHANGED <<sessVars, consumed, invVars>>

SpecRace == InitRace /\ [][NextRace]_vars

\* C10: of two concurrent requests for one user at most one dispatches an
\* e-mail and stores a code within any 5-minute window: two e-mails to the
\* same address are at least 5 minutes apart, and two requests that have both
\* answered successfully did not both send inside one window.
C10_RateLimitUnderInterleaving ==
    \A i, j \in DOMAIN outbox :
        (i < j /\ outbox[i][1] = outbox[j][1]) => outbox[j][3] - outbox[i][3] >= Window

(***************************************************************************)
(* The inventories service over its collection.                            *)
(***************************************************************************)
Ids == 1..MaxInv
Data == {"d1", "d2"}

\* The documents of the collection, each with its _id.
Docs == {inventories[i] : i \in DOMAIN inventories}

\* model.find(filter) / model.findOne(filter): the documents whose fields
\* equal the filter's; findOne answers at most one, {} standing for null.
find(filter) == {d \in Docs : \A f \in DOMAIN filter : d[f] = filter[f]}

getAll == find([deleted |-> FALSE])

getAllDeleted == find([deleted |-> TRUE])

getById(_id) == find([_id |-> _id, deleted |-> FALSE])

\* What a findById... call answers about the document it found.
Found(_id) ==
    IF _id \notin DOMAIN inventories THEN "null"
    ELSE IF inventories[_id].deleted THEN "deleted" ELSE "active"

\* model.findByIdAndUpdate(_id, patch): sets the patch's fields on the
\* document with that _id; no document, no change.
findByIdAndUpdate(_id, patch) ==
    inventories' =
        IF _id \in DOMAIN inventories
        THEN [inventories EXCEPT ![_id] =
                [f \in DOMAIN @ |-> IF f \in DOMAIN patch THEN patch[f] ELSE @[f]]]
        ELSE inventories

\* model.findByIdAndDelete(_id): removes the document with that _id.
findByIdAndDelete(_id) ==
    inventories' = [i \in DOMAIN inventories \ {_id} |-> inventories[i]]

add(body) ==
    /\ nextId <= MaxInv
    /\ inventories' = inventories @@
          (nextId :> [_id |-> nextId, deleted |-> FALSE, data |-> body.data])
    /\ nextId' = nextId + 1
    /\ last' = Resp("add", <<nextId>>, "active")
    /\ UNCHANGED purged

update(_id, body) ==
    /\ findByIdAndUpdate(_id, body)
    /\ last' = Resp("update", <<_id>>, Found(_id))
    /\ UNCHANGED <<nextId, purged>>

\* deleteById removing the document instead of flagging it.
deleteById_Removes(_id) ==
    /\ findByIdAndDelete(_id)
    /\ last' = Resp("deleteById", <<_id>>, Found(_id))
    /\ UNCHANGED <<nextId, purged>>

deleteById(_id) ==
    /\ findByIdAndUpdate(_id, [deleted |-> TRUE])
    /\ last' = Resp("deleteById", <<_id>>, Found(_id))
    /\ UNCHANGED <<nextId, purged>>

restoreById(_id) ==
    /\ findByIdAndUpdate(_id, [deleted |-> FALSE])
    /\ last' = Resp("restoreById", <<_id>>, Found(_id))
    /\ UNCHANGED <<nextId, purged>>

\* forceDelete flagging the document instead of removing it.
forceDelete_Flags(_id) ==
    /\ findByIdAndUpdate(_id, [deleted |-> TRUE])
    /\ last' = Resp("forceDelete", <<_id>>, Found(_id))
    /\ purged' = IF _id \in DOMAIN inventories THEN purged \cup {_id} ELSE purged
    /\ UNCHANGED nextId

forceDelete(_id) ==
    /\ findByIdAndDelete(_id)
    /\ last' = Resp("forceDelete", <<_id>>, Found(_id))
    /\ purged' = IF _id \in DOMAIN inventories THEN purged \cup {_id} ELSE purged
    /\ UNCHANGED nextId

\* The request bodies of an update: business fields, or the deleted flag.
Patches == {[data |-> d] : d \in Data} \cup {[deleted |-> b] : b \in BOOLEAN}

InitInv ==
    /\ InitIdle
    /\ users = [u \in UserIds |-> UserDoc(u, "pw1", NoCode)]

NextInv ==
    \/ \E d \in Data : add([data |-> d]) /\ UNCHANGED <<users, sessVars, otpVars, raceVars>>
    \/ \E i \in Ids, b \in Patches : update(i, b) /\ UNCHANGED <<users, sessVars, otpVars, raceVars>>
    \/ \E i \in Ids : deleteById(i) /\ UNCHANGED <<users, sessVars, otpVars, raceVars>>
    \/ \E i \in Ids : restoreById(i) /\ UNCHANGED <<users, sessVars, otpVars, raceVars>>
    \/ \E i \in Ids : forceDelete(i) /\ UNCHANGED <<users, sessVars, otpVars, raceVars>>

SpecInv == InitInv /\ [][NextInv]_vars

(***************************************************************************)
(* Claims about soft delete, restore and force delete (under SpecInv).     *)
(***************************************************************************)
Listed(docs, id) == \E d \in docs : d._id = id
OnlyFlagChanged(id) ==
    /\ DOMAIN inventories' = DOMAIN inventories
    /\ \A j \in DOMAIN inventories : j # id => inventories'[j] = inventories[j]
    /\ inventories'[id]._id = id
    /\ inventories'[id].data = inventories[id].data

\* C8: after deleteById of a stored id the document is in neither getAll nor
\* getById and is in getAllDeleted; after restoreById it is in getAll and
\* getById and not in getAllDeleted; either changes nothing else. Every
\* stored document is in exactly one of getAll and getAllDeleted.
C8_SoftDeleteRestore ==
    /\ [](\A i \in DOMAIN inventories :
             Listed(getAll, i) # Listed(getAllDeleted, i))
    /\ [][\A i \in DOMAIN inventories :
            /\ (last'.op = "deleteById" /\ last'.arg = <<i>>) =>
                  /\ ~Listed(getAll', i)
                  /\ getById(i)' = {}
                  /\ Listed(getAllDeleted', i)
                  /\ OnlyFlagChanged(i)
            /\ (last'.op = "restoreById" /\ last'.arg = <<i>>) =>
                  /\ Listed(getAll', i)
                  /\ getById(i)' = {inventories'[i]}
                  /\ ~Listed(getAllDeleted', i)
                  /\ OnlyFlagChanged(i)]_vars

\* A soft-deleted document was restored.
C8_Witness ==
    \E i \in DOMAIN inventories :
      /\ last = Resp("restoreById", <<i>>, "deleted")
      /\ Listed(getAll, i)

\* C9: after forceDelete no lookup finds the document, whether it was active
\* or soft-deleted, and no later deleteById, restoreById or update brings it
\* back.
C9_ForceDeleteIsFinal ==
    /\ [](\A i \in purged :
             /\ getById(i) = {}
             /\ ~Listed(getAll, i)
             /\ ~Listed(getAllDeleted, i))
    /\ [][\A i \in Ids :
            /\ (last'.op = "forceDelete" /\ last'.arg = <<i>>)
                  => i \notin DOMAIN inventories'
            /\ (i \notin DOMAIN inventories
                  /\ last'.op \in {"deleteById", "restoreById", "update"})
                  => i \notin DOMAIN inventories']_vars

\* A soft-deleted document was force-deleted and a restore of it then found
\* nothing.
C9_Witness ==
    \E i \in purged :
      /\ last = Resp("restoreById", <<i>>, "null")
      /\ i \notin DOMAIN inventories

====
